---------------------------- MODULE Spec2Model ----------------------------
(***************************************************************************)
(* A model of rapi (konidev20/restic-api): OpenRepository and open of the  *)
(* registry variant of the top-level opener, the backend wrapper stack it  *)
(* builds, calls travelling through that stack, and the repository write   *)
(* path and master index that sit above it.                                *)
(*                                                                         *)
(* Strings that the code inspects (the repository location) are sequences  *)
(* of one-character strings.  A backend is a sequence of layer names,      *)
(* innermost first: be[1] is the concrete driver and be[Len(be)] is the    *)
(* wrapper a caller enters first.                                          *)
(***************************************************************************)
EXTENDS Integers, Sequences, FiniteSets, TLC

VARIABLES
    pc,        \* position of OpenRepository: "init", "stat", "searchkey", "done"
    opts,      \* the RepositoryOptions value passed to OpenRepository
    repo,      \* the location string ReadRepo returned
    be,        \* the backend built so far: layer names, innermost first
    ret,       \* what OpenRepository returned: [repo, err]
    keyErr,    \* the error SearchKey returned ("nil" when it found a key)
    calls,     \* per caller: the backend call it has in progress
    tokens,    \* tokens of the sema wrapper that are taken
    faults,    \* how often the driver may fail one operation
    keys,      \* the passwords of the key files of the repository, in order
    cacheFS,   \* the directories below the cache base directory
    oldDirs,   \* what cache.Old returned to OpenRepository
    removed,   \* the directories OpenRepository removed
    useCache,  \* whether UseCache was called on the repository
    callers,   \* the goroutines that use the opened repository
    file,      \* the file RepositoryFile names: its status and content
    variant,   \* which open is linked: "registry" (factories) or "switch"
    globalOptions, \* the package-level default options
    rt,        \* the HTTP transport open built
    lim,       \* the limiter open built
    fi,        \* what the Stat of the config file in open returned
    cacheLog,  \* the calls of the cache package OpenRepository made
    mi,        \* MasterIndex.idx: the in-memory indexes, in order
    pending,   \* blobs the master index knows as being in a packer
    packer,    \* the blobs in the packer that is being filled
    packs,     \* the pack files in the backend
    nSaves,    \* number of backend Save calls for pack files
    results,   \* what the SaveBlob calls returned, in order
    loaded,    \* the index files LoadIndex has read
    nextId,    \* source of fresh index IDs
    mergedLog, \* the state in which indexes were when a merge consumed them
    lastOp,    \* the last operation on the master index
    testRet,   \* what TestMergeIndex returned
    snapRepo,  \* the repository of the snapshot test: its version and compression
    snapFiles, \* the files of FileType snapshot in its backend
    snapSaves, \* what the SaveSnapshot calls were given and returned
    snapLoads, \* what the LoadSnapshot calls were given and returned
    heap,      \* the backend objects of the s3 layout migration test
    s3ret      \* the last toS3Backend call: argument, result, the objects then

\* what OpenRepository finds: it changes none of these
envVars == <<file, variant, globalOptions>>

\* what the steps of OpenRepository leave behind
stepVars == <<rt, lim, fi, cacheLog>>

openVars == <<pc, opts, repo, be, ret, keyErr, calls, tokens, faults, keys,
              cacheFS, oldDirs, removed, useCache, callers, envVars, stepVars>>

repoVars == <<mi, pending, packer, packs, nSaves, results, loaded, nextId,
              mergedLog, lastOp, testRet>>

snapVars == <<snapRepo, snapFiles, snapSaves, snapLoads>>

s3Vars == <<heap, s3ret>>

testVars == <<snapVars, s3Vars>>

vars == <<openVars, repoVars, testVars>>

----------------------------------------------------------------------------
(* Bounds of the model *)

\* goroutines that call the backend of the opened repository concurrently
NCallers == 3
\* the connection limit of the backend (what the sema wrapper caps)
Connections == 2
\* how often the driver may fail one operation while goroutines share the backend
SemaFaults == 0
\* how often the driver may fail one operation while the repository is opened
OpenFaults == 2
\* SaveBlob calls on the repository
MaxSaveBlobs == 3
\* the blobs that fill a pack
PackBlobs == 2
\* the snapshots saved in one repository
MaxSnapshots == 2
\* the backend objects the migration test creates
MaxBackends == 3
\* how often the driver may fail one operation of a goroutine: more often than
\* the retry wrapper tries
RetryFaults == 11

----------------------------------------------------------------------------
(* Program constants *)

maxKeys == 20

MaxTriesOffByOne == 10 + 1

\* the second argument of retry.New(be, 10, report, success)
MaxTries == 10

----------------------------------------------------------------------------
(* Strings *)

IsSpace(ch) == ch \in {" ", "\n", "\t"}

RECURSIVE TrimLeft(_)
TrimLeft(s) == IF s # <<>> /\ IsSpace(Head(s)) THEN TrimLeft(Tail(s)) ELSE s

RECURSIVE TrimRight(_)
TrimRight(s) ==
    IF s # <<>> /\ IsSpace(s[Len(s)]) THEN TrimRight(SubSeq(s, 1, Len(s) - 1)) ELSE s

\* strings.TrimSpace
TrimSpace(s) == TrimRight(TrimLeft(s))

----------------------------------------------------------------------------
(* ReadRepo *)

ReadRepoFileWins(o, f) ==
    IF o.Repo = <<>> /\ o.RepositoryFile = ""
    THEN [repo |-> <<>>, err |-> "Fatal: specify repository location"]
    ELSE IF o.RepositoryFile # "" /\ f.status = "ok"
         THEN [repo |-> TrimSpace(f.content), err |-> "nil"]
         ELSE [repo |-> o.Repo, err |-> "nil"]

ReadRepo(o, f) ==
    IF o.Repo = <<>> /\ o.RepositoryFile = ""
    THEN [repo |-> <<>>, err |-> "Fatal: specify repository location"]
    ELSE IF o.RepositoryFile # ""
         THEN IF o.Repo # <<>>
              THEN [repo |-> <<>>, err |-> "Fatal: mutually exclusive"]
              ELSE IF f.status = "notexist"
                   THEN [repo |-> <<>>, err |-> "Fatal: does not exist"]
                   ELSE IF f.status # "ok"
                        THEN [repo |-> <<>>, err |-> "read error"]
                        ELSE [repo |-> TrimSpace(f.content), err |-> "nil"]
         ELSE [repo |-> o.Repo, err |-> "nil"]

----------------------------------------------------------------------------
(* Backends as wrapper stacks *)

Has(s, x) == \E i \in 1..Len(s) : s[i] = x

IdxOf(s, x) == CHOOSE i \in 1..Len(s) : s[i] = x

\* sema.NewBackend(be)
semaNewBackend(b) == Append(b, "sema")

\* logger.New(be)
loggerNew(b) == Append(b, "logger")

\* retry.New(be, 10, report, success)
retryNew(b) == Append(b, "retry")

\* Repository.UseCache(c): the backend of the repository is wrapped by the cache
UseCache(b) == Append(b, "cache")

openWrapSwapped(b) == semaNewBackend(loggerNew(b))

openWrapNoSema(b) == loggerNew(b)

\* open: wrap with debug logging and connection limiting
openWrap(b) == loggerNew(semaNewBackend(b))

\* a test hook: none, one that wraps the backend, one that returns an error
Hooks == {"none", "wrap", "err"}

applyHook(h, b, name) == IF h = "wrap" THEN Append(b, name) ELSE b

----------------------------------------------------------------------------
(* Calls through the backend *)

Opener == "OpenRepository"

CallerIds == {"g1", "g2", "g3", "g4", "g5"}

Ids(n) == {c \in CallerIds : \E i \in 1..n : c = <<"g1", "g2", "g3", "g4", "g5">>[i]}

Ops == {"Load", "Stat", "List", "Remove", "Save"}

Idempotent == {"Load", "Stat", "List", "Remove"}

\* st: "idle", "run", "ok" or "err"; pos: the layer of the backend the call is in
\* (Len(be) + 1: not yet in the outermost one); path: the layers the current
\* attempt has entered; fails: the attempts the driver has failed
Idle == [st |-> "idle", op |-> "none", pos |-> 0, attempts |-> 0, admitted |-> FALSE,
         path |-> <<>>, fails |-> 0, reports |-> 0, successes |-> 0, retries |-> 0]

\* a call of op on backend b: it is about to enter the outermost layer
NewCall(op, b) == [Idle EXCEPT !.st = "run", !.op = op, !.pos = Len(b) + 1, !.attempts = 1]

reportNil(cl) == cl

\* OpenRepository: report := func(msg, err, d) { Warnf(...) }
report(cl) == [cl EXCEPT !.reports = @ + 1]

\* OpenRepository: success := func(msg, retries) { Warnf(...) }
success(cl, retries) == [cl EXCEPT !.successes = @ + 1, !.retries = retries]

\* the retry wrapper: which failed operations it tries again
Retryable(op, visible) == op \in Idempotent \/ (op = "Save" /\ ~visible)

\* the retry wrapper, when the layers below it return
retryReturn(cl, fail, visible) ==
    IF ~fail
    THEN LET done == [cl EXCEPT !.st = "ok", !.pos = 0, !.admitted = FALSE]
         IN  IF cl.attempts > 1 THEN success(done, cl.attempts - 1) ELSE done
    ELSE IF Retryable(cl.op, visible) /\ cl.attempts < MaxTries
         THEN [report(cl) EXCEPT !.attempts = @ + 1, !.pos = IdxOf(be, "retry"),
                                 !.admitted = FALSE,
                                 !.path = SubSeq(@, 1, IdxOf(@, "retry"))]
         ELSE [cl EXCEPT !.st = "err", !.pos = 0, !.admitted = FALSE]

\* a backend without the retry wrapper hands the driver's result to the caller
plainReturn(cl, fail) ==
    [cl EXCEPT !.st = IF fail THEN "err" ELSE "ok", !.pos = 0, !.admitted = FALSE]

\* the call enters the next layer; the sema wrapper admits it when a token is free
Pass(c) ==
    /\ calls[c].st = "run"
    /\ calls[c].pos > 1
    /\ LET nxt == be[calls[c].pos - 1] IN
        /\ nxt = "sema" => tokens < Connections
        /\ tokens' = IF nxt = "sema" THEN tokens + 1 ELSE tokens
        /\ calls' = [calls EXCEPT ![c].pos = @ - 1,
                                  ![c].admitted = @ \/ nxt = "sema",
                                  ![c].path = Append(@, nxt)]
    /\ UNCHANGED <<pc, opts, repo, be, ret, keyErr, faults, keys, cacheFS, oldDirs,
                   removed, useCache, callers>>
    /\ UNCHANGED <<envVars, stepVars>>
    /\ UNCHANGED <<repoVars, testVars>>

\* the driver finishes the operation; the result travels back up the stack
DriverDone(c) ==
    /\ calls[c].st = "run"
    /\ calls[c].pos = 1
    /\ \E fail \in BOOLEAN, visible \in BOOLEAN :
        /\ fail => calls[c].attempts <= faults
        /\ visible => fail /\ calls[c].op = "Save"
        /\ tokens' = IF calls[c].admitted THEN tokens - 1 ELSE tokens
        /\ LET cl    == [calls[c] EXCEPT !.fails = IF fail THEN @ + 1 ELSE @]
               after == IF Has(be, "retry")
                        THEN retryReturn(cl, fail, visible)
                        ELSE plainReturn(cl, fail)
           IN  calls' = [calls EXCEPT ![c] = after]
    /\ UNCHANGED <<pc, opts, repo, be, ret, keyErr, faults, keys, cacheFS, oldDirs,
                   removed, useCache, callers>>
    /\ UNCHANGED <<envVars, stepVars>>
    /\ UNCHANGED <<repoVars, testVars>>

\* the cache wrapper serves a Load from the local directory
CacheHit(c) ==
    /\ calls[c].st = "run"
    /\ calls[c].pos \in 1..Len(be)
    /\ be[calls[c].pos] = "cache"
    /\ calls[c].op = "Load"
    /\ calls' = [calls EXCEPT ![c] = [@ EXCEPT !.st = "ok", !.pos = 0]]
    /\ UNCHANGED <<pc, opts, repo, be, ret, keyErr, tokens, faults, keys, cacheFS,
                   oldDirs, removed, useCache, callers>>
    /\ UNCHANGED <<envVars, stepVars>>
    /\ UNCHANGED <<repoVars, testVars>>

\* a goroutine starts an operation on the backend of the opened repository
CallStart(c, op) ==
    /\ pc = "done"
    /\ ret.repo
    /\ c \in callers
    /\ calls[c].st # "run"
    /\ calls' = [calls EXCEPT ![c] = NewCall(op, be)]
    /\ UNCHANGED <<pc, opts, repo, be, ret, keyErr, tokens, faults, keys, cacheFS,
                   oldDirs, removed, useCache, callers>>
    /\ UNCHANGED <<envVars, stepVars>>
    /\ UNCHANGED <<repoVars, testVars>>

----------------------------------------------------------------------------
(* The cache directory *)

\* the cache directory of the repository that is opened, and those of others
OwnDir == "self"

Siblings == {"d1", "d2"}

\* cache.Old(base): directories of other repositories below base
cacheOld(fs) == SUBSET (fs \ {OwnDir})

----------------------------------------------------------------------------
(* SearchKey *)

\* the key files are tried in order, at most max of them; the first one the
\* password decrypts is accepted
RECURSIVE SearchKey(_, _, _)
SearchKey(ks, password, max) ==
    IF ks = <<>> \/ max = 0
    THEN "AuthError"
    ELSE IF Head(ks) = password
         THEN "nil"
         ELSE SearchKey(Tail(ks), password, max - 1)

----------------------------------------------------------------------------
(* OpenRepository and open *)

\* the failures of the steps of open that end before the backend exists
OpenErrors ==
    {"Fatal: parsing repository location failed", "parseConfig failed",
     "Fatal: transport", "Fatal: invalid backend", "Fatal: unable to open repository"}

\* those of them that end open before it has built the transport
BeforeTransport ==
    {"Fatal: parsing repository location failed", "parseConfig failed", "Fatal: transport"}

\* the files RepositoryFile may name
Files ==
    [status : {"notexist", "ioerror"}, content : {<<>>}]
        \cup [status : {"ok"}, content : {<<"r">>, <<" ", "r", "\n">>}]

\* every RepositoryOptions value of the model
AllOpts ==
    [Repo : {<<>>, <<"r">>}, RepositoryFile : {"", "f"}, Password : {"p", "q"},
     NoCache : BOOLEAN, CleanupCache : BOOLEAN,
     backendTestHook : Hooks, backendInnerTestHook : Hooks,
     TransportOptions : {"t1"}, Limits : {"l1"}]

Failed(e) == [repo |-> FALSE, err |-> e]

NotReturned == [repo |-> FALSE, err |-> "pending"]

\* backend.Transport(opts): the transport carries the options it was built from
Transport(t) == [opts |-> t, limits |-> "unlimited"]

\* limiter.NewStaticLimiter(limits)
NewStaticLimiter(l) == [limits |-> l]

\* lim.Transport(rt)
limTransport(l, t) == [t EXCEPT !.limits = l.limits]

\* limiter.LimitBackend(be, lim)
LimitBackend(b) == Append(b, "limit")

\* open: the options backend.Transport is called with; the registry variant
\* passes gopts.TransportOptions, the switch variant globalOptions.TransportOptions
transportOptions(v, gopts, global) ==
    IF v = "registry" THEN gopts.TransportOptions ELSE global.TransportOptions

\* open: the wrappers around the backend the factory or the switch returned
openWrapOf(v, b) == IF v = "registry" THEN openWrap(b) ELSE b

\* open: the switch variant limits the backends of the schemes local and sftp
openLimit(v, local, b) == IF v = "switch" /\ local THEN LimitBackend(b) ELSE b

NoStat == [called |-> FALSE, err |-> FALSE, size |-> 0]

NoTransport == [opts |-> "none", limits |-> "none"]

NoLimiter == [limits |-> "none"]

NoCacheCalls ==
    [new |-> "notcalled", old |-> "notcalled", attempted |-> {}, failing |-> {}]

\* OpenRepository up to the Stat of the config file in open
OpenRepositoryBegin(o, openErr, local) ==
    /\ pc = "init"
    /\ opts' = o
    /\ LET r == ReadRepo(o, file) IN
        IF r.err # "nil"
        THEN /\ pc' = "done"
             /\ ret' = Failed(r.err)
             /\ UNCHANGED <<repo, be, calls, rt, lim>>
        ELSE /\ repo' = r.repo
             /\ IF openErr \in BeforeTransport
                THEN /\ pc' = "done"
                     /\ ret' = Failed(openErr)
                     /\ UNCHANGED <<be, calls, rt, lim>>
                ELSE /\ lim' = NewStaticLimiter(o.Limits)
                     /\ rt' = limTransport(NewStaticLimiter(o.Limits),
                                Transport(transportOptions(variant, o, globalOptions)))
                     /\ IF openErr # "nil"
                        THEN /\ pc' = "done"
                             /\ ret' = Failed(openErr)
                             /\ UNCHANGED <<be, calls>>
                        ELSE LET wrapped == openWrapOf(variant, <<"driver">>) IN
                             IF o.backendInnerTestHook = "err"
                             THEN /\ pc' = "done"
                                  /\ ret' = Failed("backendInnerTestHook failed")
                                  /\ be' = wrapped
                                  /\ UNCHANGED calls
                             ELSE LET b == openLimit(variant, local,
                                             applyHook(o.backendInnerTestHook, wrapped,
                                                       "innerTestHook"))
                                  IN  /\ be' = b
                                      /\ calls' = [calls EXCEPT ![Opener] = NewCall("Stat", b)]
                                      /\ pc' = "stat"
                                      /\ UNCHANGED ret
    /\ UNCHANGED <<keyErr, tokens, faults, keys, cacheFS, oldDirs, removed,
                   useCache, callers>>
    /\ UNCHANGED <<envVars, fi, cacheLog>>
    /\ UNCHANGED <<repoVars, testVars>>

checkConfigNoSize(st, size) ==
    IF st = "err" THEN "Fatal: unable to open config file" ELSE "nil"

\* open: the check of what the Stat of the config file returned
checkConfig(st, size) ==
    IF st = "err"
    THEN "Fatal: unable to open config file"
    ELSE IF size = 0 THEN "config file has zero size" ELSE "nil"

\* open after the Stat of the config file, then OpenRepository up to SearchKey
OpenRepositoryAfterStat(size, newErr) ==
    /\ pc = "stat"
    /\ calls[Opener].st \in {"ok", "err"}
    /\ calls[Opener].st = "err" => size = 0
    /\ fi' = [called |-> TRUE, err |-> calls[Opener].st = "err", size |-> size]
    /\ IF checkConfig(calls[Opener].st, size) # "nil"
       THEN /\ pc' = "done"
            /\ ret' = Failed(checkConfig(calls[Opener].st, size))
            /\ UNCHANGED <<be, calls>>
       ELSE LET retried == retryNew(be) IN
            IF opts.backendTestHook = "err"
            THEN /\ pc' = "done"
                 /\ ret' = Failed("backendTestHook failed")
                 /\ be' = retried
                 /\ UNCHANGED calls
            ELSE LET b == applyHook(opts.backendTestHook, retried, "testHook") IN
                 /\ be' = b
                 /\ IF newErr
                    THEN /\ pc' = "done"
                         /\ ret' = Failed("repository.New failed")
                         /\ UNCHANGED calls
                    ELSE /\ pc' = "searchkey"
                         /\ calls' = [calls EXCEPT ![Opener] = NewCall("Load", b)]
                         /\ UNCHANGED ret
    /\ UNCHANGED <<opts, repo, keyErr, tokens, faults, keys, cacheFS, oldDirs,
                   removed, useCache, callers>>
    /\ UNCHANGED <<envVars, rt, lim, cacheLog>>
    /\ UNCHANGED <<repoVars, testVars>>

cleanupAlways(o, old, failing) == old \ failing

\* the directories the cleanup loop of OpenRepository removes
cleanup(o, old, failing) == IF o.CleanupCache THEN old \ failing ELSE {}

\* what OpenRepository returns once SearchKey has returned err
afterSearchKey(err) == [repo |-> TRUE, err |-> "nil"]

attachCacheAlways(o, newOk) == newOk

\* OpenRepository: the cache is opened and attached unless NoCache is set or
\* cache.New fails
attachCache(o, newOk) == ~o.NoCache /\ newOk

\* OpenRepository from the return of SearchKey to its own return
OpenRepositoryAfterSearchKey(newOk, old, oldErr, failing) ==
    /\ pc = "searchkey"
    /\ calls[Opener].st \in {"ok", "err"}
    /\ LET err  == IF calls[Opener].st = "err"
                   THEN "backend error"
                   ELSE SearchKey(keys, opts.Password, maxKeys)
           dirs == IF oldErr THEN {} ELSE old
           gone == cleanup(opts, dirs, failing)
       IN  /\ keyErr' = err
           /\ opts' = IF err # "nil" THEN [opts EXCEPT !.Password = ""] ELSE opts
           /\ ret' = afterSearchKey(err)
           /\ pc' = "done"
           /\ IF ~attachCache(opts, newOk)
              THEN /\ UNCHANGED <<be, cacheFS, oldDirs, removed, useCache>>
                   /\ cacheLog' = [NoCacheCalls EXCEPT
                                     !.new = IF opts.NoCache THEN "notcalled"
                                             ELSE IF newOk THEN "ok" ELSE "err"]
              ELSE /\ be' = UseCache(be)
                   /\ useCache' = TRUE
                   /\ oldDirs' = dirs
                   /\ removed' = gone
                   /\ cacheFS' = (cacheFS \cup {OwnDir}) \ gone
                   /\ cacheLog' = [new |-> "ok",
                                   old |-> IF oldErr THEN "err" ELSE "ok",
                                   attempted |-> IF opts.CleanupCache THEN dirs ELSE {},
                                   failing |-> IF opts.CleanupCache
                                               THEN dirs \cap failing ELSE {}]
    /\ UNCHANGED <<repo, calls, tokens, faults, keys, callers>>
    /\ UNCHANGED <<envVars, rt, lim, fi>>
    /\ UNCHANGED <<repoVars, testVars>>

----------------------------------------------------------------------------
(* Blobs, packs and the master index *)

\* the ID of a plaintext: one ID per plaintext, no two plaintexts share one
SHA256(d) == <<"sha256", d>>

BlobHandle(t, d) == [type |-> t, id |-> SHA256(d)]

\* the blobs that are saved: one plaintext as data and as tree, another as data
Blobs == {<<"data", "hello world">>, <<"tree", "hello world">>, <<"data", "x">>}

Range(q) == {q[i] : i \in 1..Len(q)}

\* the ID of a pack file is the hash of its content
PackID(blobs) == <<"sha256", blobs>>

Pack(blobs) == [id |-> PackID(blobs), blobs |-> blobs]

\* the pack files that the index files of the repository list; pack i holds
\* one data blob, pack 1 the blob of "hello world"
LoadedPlain ==
    <<"hello world", "l2", "l3", "l4", "l5", "l6", "l7", "l8", "l9", "l10",
      "l11", "l12">>

LoadedPack(i) == Pack(<<BlobHandle("data", LoadedPlain[i])>>)

\* the index files of the repository: two disjoint ones of 5 and 7 packs, and
\* one that lists a pack of the first again
IndexFiles == {"i5", "i7", "i1"}

FilePacks(f) ==
    CASE f = "i5" -> [i \in 1..5 |-> LoadedPack(i)]
      [] f = "i7" -> [i \in 1..7 |-> LoadedPack(5 + i)]
      [] f = "i1" -> <<LoadedPack(3)>>

\* the ID of an index file of the repository
FileID(f) == <<f, 0>>

\* an in-memory index: ids are the IDs it is stored under, hist the states it
\* has been in, late the entries added to it when it was no longer open
NewIndex ==
    [final |-> FALSE, ids |-> {}, packs |-> <<>>,
     hist |-> <<"Open">>, late |-> 0]

\* Index.Finalize
Finalize(x) ==
    IF x.final THEN x ELSE [x EXCEPT !.final = TRUE, !.hist = Append(@, "Finalized")]

\* Index.SetID: only a finalized index without an ID takes one
SetIDOk(x) == x.final /\ x.ids = {}

SetID(x, id) ==
    IF SetIDOk(x) THEN [x EXCEPT !.ids = {id}, !.hist = Append(@, "Saved")] ELSE x

\* Index.StorePack: a pack and its blobs are added to the index
StoreInto(x, pack) ==
    [x EXCEPT !.packs = Append(@, pack),
              !.late = IF x.final THEN @ + 1 ELSE @]

\* an index decoded from an index file: final, stored under the file's ID
DecodeIndex(f) ==
    [final |-> TRUE, ids |-> {FileID(f)}, packs |-> FilePacks(f),
     hist |-> <<"Open", "Finalized", "Saved">>, late |-> 0]

IndexHas(x, h) == \E i \in 1..Len(x.packs) : h \in Range(x.packs[i].blobs)

\* MasterIndex.Has, blobs in a packer included
MasterHasStored(m, pend, h) == \E i \in 1..Len(m) : IndexHas(m[i], h)

MasterHas(m, pend, h) == h \in pend \/ \E i \in 1..Len(m) : IndexHas(m[i], h)

storeTargetLast(m) == Len(m)

\* MasterIndex.StorePack: the index that takes new entries is the first one
\* that is not final; 0 when there is none
storeTarget(m) ==
    IF \E i \in 1..Len(m) : ~m[i].final
    THEN CHOOSE i \in 1..Len(m) : ~m[i].final /\ \A j \in 1..(i - 1) : m[j].final
    ELSE 0

\* MasterIndex.StorePack
StorePack(m, pack) ==
    LET t == storeTarget(m) IN
    IF t = 0
    THEN Append(m, StoreInto(NewIndex, pack))
    ELSE [m EXCEPT ![t] = StoreInto(m[t], pack)]

\* MasterIndex.finalizeNotFinalIndexes: the positions of the indexes it
\* finalizes, and the master index afterwards
notFinal(m) == {i \in 1..Len(m) : ~m[i].final}

finalizeNotFinalIndexes(m) == [i \in 1..Len(m) |-> Finalize(m[i])]

\* MergeFinalIndexes merges the indexes that are final and have an ID
mergeable(x) == x.final /\ x.ids # {}

PackIds(q) == {q[i].id : i \in 1..Len(q)}

\* Index.merge: the packs of from that into does not hold yet are appended
RECURSIVE mergePacks(_, _)
mergePacks(into, from) ==
    IF from = <<>>
    THEN into
    ELSE mergePacks(IF Head(from).id \in PackIds(into)
                    THEN into
                    ELSE Append(into, Head(from)),
                    Tail(from))

mergeIndex(a, b) ==
    [a EXCEPT !.ids = @ \cup b.ids, !.packs = mergePacks(@, b.packs)]

\* MasterIndex.MergeFinalIndexes: the mergeable indexes become one index, at
\* the place of the first of them; the others stay as they are
RECURSIVE mergeFrom(_, _, _)
mergeFrom(m, i, acc) ==
    \* acc: [out: indexes kept so far, at: position in out of the merged index]
    IF i > Len(m)
    THEN acc.out
    ELSE IF ~mergeable(m[i])
         THEN mergeFrom(m, i + 1, [acc EXCEPT !.out = Append(@, m[i])])
         ELSE IF acc.at = 0
              THEN mergeFrom(m, i + 1, [out |-> Append(acc.out, m[i]),
                                        at |-> Len(acc.out) + 1])
              ELSE mergeFrom(m, i + 1,
                     [acc EXCEPT !.out[acc.at] = mergeIndex(@, m[i])])

MergeFinalIndexes(m) == mergeFrom(m, 1, [out |-> <<>>, at |-> 0])

\* what a merge consumes: the state of every index it merges
Consumed(m) ==
    {[final |-> m[i].final, saved |-> m[i].ids # {}] : i \in {j \in 1..Len(m) : mergeable(m[j])}}

----------------------------------------------------------------------------
(* The repository: SaveBlob, Flush, the index operations *)

\* Repository.SaveBlob
SaveBlob(t, d) ==
    /\ Len(results) < MaxSaveBlobs
    /\ LET h == BlobHandle(t, d) IN
        IF MasterHas(mi, pending, h)
        THEN /\ results' = Append(results, [blob |-> h, id |-> h.id, known |-> TRUE])
             /\ UNCHANGED <<mi, pending, packer, packs, nSaves, nextId, lastOp>>
        ELSE /\ results' = Append(results, [blob |-> h, id |-> h.id, known |-> FALSE])
             /\ IF Len(packer) + 1 >= PackBlobs
                THEN \* the packer is full: its pack is saved; a packer of the
                     \* pool takes its place
                     /\ packer' = <<>>
                     /\ pending' = pending \ Range(packer)
                     /\ packs' = packs \cup {Pack(Append(packer, h))}
                     /\ nSaves' = nSaves + 1
                     /\ mi' = StorePack(mi, Pack(Append(packer, h)))
                     /\ lastOp' = "other"
                     /\ UNCHANGED nextId
                ELSE /\ packer' = Append(packer, h)
                     /\ pending' = pending \cup {h}
                     /\ UNCHANGED <<mi, packs, nSaves, nextId, lastOp>>
    /\ UNCHANGED <<loaded, mergedLog, testRet>>
    /\ UNCHANGED <<openVars, testVars>>

\* Repository.Flush: the packer that is being filled is saved and indexed
Flush ==
    /\ packer # <<>>
    /\ packer' = <<>>
    /\ pending' = pending \ Range(packer)
    /\ packs' = packs \cup {Pack(packer)}
    /\ nSaves' = nSaves + 1
    /\ mi' = StorePack(mi, Pack(packer))
    /\ lastOp' = "other"
    /\ UNCHANGED <<results, loaded, nextId, mergedLog, testRet>>
    /\ UNCHANGED <<openVars, testVars>>

\* the open indexes are finalized, to be saved
FinalizeIndexes ==
    /\ notFinal(mi) # {}
    /\ mi' = finalizeNotFinalIndexes(mi)
    /\ lastOp' = "other"
    /\ UNCHANGED <<pending, packer, packs, nSaves, results, loaded, nextId,
                   mergedLog, testRet>>
    /\ UNCHANGED <<openVars, testVars>>

\* an index is saved under FileType index and takes the ID; SetID refuses an
\* index that is not final or has an ID
SaveIndex(i) ==
    /\ i \in 1..Len(mi)
    /\ mi' = [mi EXCEPT ![i] = SetID(@, <<"I", nextId>>)]
    /\ nextId' = IF SetIDOk(mi[i]) THEN nextId + 1 ELSE nextId
    /\ lastOp' = IF SetIDOk(mi[i]) THEN "other" ELSE lastOp
    /\ UNCHANGED <<pending, packer, packs, nSaves, results, loaded, mergedLog, testRet>>
    /\ UNCHANGED <<openVars, testVars>>

\* MasterIndex.MergeFinalIndexes, called by the repository
MergeFinal ==
    /\ mi' = MergeFinalIndexes(mi)
    /\ mergedLog' = mergedLog \cup Consumed(mi)
    /\ lastOp' = "merge"
    /\ UNCHANGED <<pending, packer, packs, nSaves, results, loaded, nextId, testRet>>
    /\ UNCHANGED <<openVars, testVars>>

\* the orders in which a listing of the backend may give the files
Listings(files) == {q \in [1..Cardinality(files) -> files] : Range(q) = files}

\* Repository.LoadIndex, before anything is saved: the index files are read,
\* decoded and merged
LoadIndex(order) ==
    /\ loaded = {}
    /\ mi = <<>>
    /\ results = <<>>
    /\ LET read == [i \in 1..Len(order) |-> DecodeIndex(order[i])]
       IN  /\ mi' = MergeFinalIndexes(read)
           /\ mergedLog' = mergedLog \cup Consumed(read)
    /\ loaded' = Range(order)
    /\ lastOp' = "merge"
    /\ UNCHANGED <<pending, packer, packs, nSaves, results, nextId, testRet>>
    /\ UNCHANGED <<openVars, testVars>>

setIDsSkipped(m, S, n) == m

\* TestMergeIndex: SetID(restic.NewRandomID()) on every index of S
RECURSIVE setIDs(_, _, _)
setIDs(m, S, n) ==
    IF S = {}
    THEN m
    ELSE LET i == CHOOSE j \in S : \A k \in S : j <= k
         IN  setIDs([m EXCEPT ![i] = SetID(@, <<"I", n>>)], S \ {i}, n + 1)

\* TestMergeIndex of internal/index/testing.go
TestMergeIndex ==
    /\ LET finalIndexes == notFinal(mi)
           finalized    == finalizeNotFinalIndexes(mi)
           withIDs      == setIDs(finalized, finalIndexes, nextId)
       IN  /\ mi' = MergeFinalIndexes(withIDs)
           /\ mergedLog' = mergedLog \cup Consumed(withIDs)
           /\ nextId' = nextId + Cardinality(finalIndexes)
           /\ testRet' = [ok |-> \A i \in finalIndexes : SetIDOk(finalized[i]),
                          n |-> Len(MergeFinalIndexes(withIDs)),
                          finalIndexes |-> Cardinality(finalIndexes)]
    /\ lastOp' = "test"
    /\ UNCHANGED <<pending, packer, packs, nSaves, results, loaded>>
    /\ UNCHANGED <<openVars, testVars>>

----------------------------------------------------------------------------
(* Specifications *)

\* the zero value of RepositoryOptions
NoOpts ==
    [Repo |-> <<>>, RepositoryFile |-> "", Password |-> "", NoCache |-> FALSE,
     CleanupCache |-> FALSE, backendTestHook |-> "none",
     backendInnerTestHook |-> "none", TransportOptions |-> "t0", Limits |-> "l0"]

\* the key files a repository may hold
KeySets == {<<"p">>, <<"q">>, <<"q", "p">>, <<"q", "q">>}

\* a repository object on which nothing has been saved or loaded
RepoInit ==
    /\ mi = <<>>
    /\ pending = {}
    /\ packer = <<>>
    /\ packs = {}
    /\ nSaves = 0
    /\ results = <<>>
    /\ loaded = {}
    /\ nextId = 1
    /\ mergedLog = {}
    /\ lastOp = "other"
    /\ testRet = [ok |-> TRUE, n |-> 0, finalIndexes |-> 0]

\* the tests of the restic and migrations packages have not run
TestInit ==
    /\ snapRepo = [version |-> 1, compression |-> "off"]
    /\ snapFiles = {}
    /\ snapSaves = {}
    /\ snapLoads = {}
    /\ heap = <<>>
    /\ s3ret = [arg |-> 0, res |-> 0, at |-> <<>>]

InitWith(cs, f, ks, fs, fl, v, g) ==
    /\ pc = "init"
    /\ file = fl
    /\ variant = v
    /\ globalOptions = g
    /\ rt = NoTransport
    /\ lim = NoLimiter
    /\ fi = NoStat
    /\ cacheLog = NoCacheCalls
    /\ opts = NoOpts
    /\ repo = <<>>
    /\ be = <<>>
    /\ ret = NotReturned
    /\ keyErr = "unset"
    /\ callers = cs
    /\ calls = [c \in cs \cup {Opener} |-> Idle]
    /\ tokens = 0
    /\ faults = f
    /\ keys = ks
    /\ cacheFS = fs
    /\ oldDirs = {}
    /\ removed = {}
    /\ useCache = FALSE
    /\ RepoInit
    /\ TestInit

\* the file RepositoryFile names when nothing reads it
NoFile == [status |-> "notexist", content |-> <<>>]

Init ==
    \E ks \in KeySets, own \in SUBSET {OwnDir}, fl \in Files :
        InitWith({}, OpenFaults, ks, Siblings \cup own, fl, "registry", NoOpts)

\* OpenRepository called with an options value out of os
OpenRepository(os) ==
    \/ /\ pc = "init"
       /\ \E o \in os, e \in OpenErrors \cup {"nil"}, local \in BOOLEAN :
            OpenRepositoryBegin(o, e, local)
    \/ /\ pc = "stat"
       /\ \E size \in {0, 1}, newErr \in BOOLEAN :
            OpenRepositoryAfterStat(size, newErr)
    \/ /\ pc = "searchkey"
       /\ \E newOk \in BOOLEAN, old \in cacheOld(cacheFS), oldErr \in BOOLEAN :
            \E failing \in SUBSET old :
                OpenRepositoryAfterSearchKey(newOk, old, oldErr, failing)
    \/ Pass(Opener)
    \/ DriverDone(Opener)

Next == OpenRepository(AllOpts)

Spec == Init /\ [][Next]_vars

----------------------------------------------------------------------------
(* The opened repository in use *)

\* options that open a repository: a location, the right password, no cleanup
CallOpts ==
    [Repo : {<<"r">>}, RepositoryFile : {""}, Password : {"p"},
     NoCache : BOOLEAN, CleanupCache : {FALSE},
     backendTestHook : {"none", "wrap"}, backendInnerTestHook : {"none", "wrap"},
     TransportOptions : {"t1"}, Limits : {"l1"}]

\* goroutines issue operations out of ops on the backend of the repository
Calls(ops) ==
    \/ \E c \in callers, op \in ops : CallStart(c, op)
    \/ \E c \in callers : Pass(c)
    \/ \E c \in callers : DriverDone(c)
    \/ \E c \in callers : CacheHit(c)

\* one goroutine, a driver that may fail more often than the retry wrapper tries
InitUse == InitWith(Ids(1), RetryFaults, <<"p">>, {OwnDir}, NoFile, "registry", NoOpts)

NextUse == OpenRepository(CallOpts) \/ Calls(Ops)

SpecUse == InitUse /\ [][NextUse]_vars

\* several goroutines share the backend, with both test hooks or with none
SemaOps == {"Load"}

SemaOpts == {o \in CallOpts : ~o.NoCache /\ o.backendTestHook = o.backendInnerTestHook}

InitSema ==
    InitWith(Ids(NCallers), SemaFaults, <<"p">>, {OwnDir}, NoFile, "registry", NoOpts)

NextSema == OpenRepository(SemaOpts) \/ Calls(SemaOps)

SpecSema == InitSema /\ [][NextSema]_vars

----------------------------------------------------------------------------
(* open and the package-level options: either variant of open, called with
   its own transport options and limits *)

\* the transport options and the limits of a call and of the package level
TransportValues == {"t0", "t1", "t2"}

TransportOpts ==
    [Repo : {<<"r">>}, RepositoryFile : {""}, Password : {"p"},
     NoCache : {TRUE}, CleanupCache : {FALSE},
     backendTestHook : {"none"}, backendInnerTestHook : {"none"},
     TransportOptions : {"t1", "t2"}, Limits : {"l1", "l2"}]

\* code of the package or of a program that uses it assigns to the
\* package-level options
SetGlobalOptions(t) ==
    /\ globalOptions' = [globalOptions EXCEPT !.TransportOptions = t]
    /\ UNCHANGED <<pc, opts, repo, be, ret, keyErr, calls, tokens, faults, keys,
                   cacheFS, oldDirs, removed, useCache, callers, file, variant,
                   stepVars>>
    /\ UNCHANGED <<repoVars, testVars>>

InitTransport ==
    \E v \in {"registry", "switch"} :
        InitWith({}, SemaFaults, <<"p">>, {OwnDir}, NoFile, v, NoOpts)

NextTransport ==
    \/ OpenRepository(TransportOpts)
    \/ \E t \in TransportValues : SetGlobalOptions(t)

SpecTransport == InitTransport /\ [][NextTransport]_vars

----------------------------------------------------------------------------
(* The repository after it was opened: blobs are saved, indexes loaded, saved
   and merged *)

\* OpenRepository has returned a repository for options without a cache
Opened ==
    /\ pc = "done"
    /\ opts = [NoOpts EXCEPT !.Repo = <<"r">>, !.Password = "p", !.NoCache = TRUE]
    /\ file = NoFile
    /\ variant = "registry"
    /\ globalOptions = NoOpts
    /\ rt = limTransport(NewStaticLimiter("l0"), Transport("t0"))
    /\ lim = NewStaticLimiter("l0")
    /\ fi = [called |-> TRUE, err |-> FALSE, size |-> 1]
    /\ cacheLog = NoCacheCalls
    /\ repo = <<"r">>
    /\ be = retryNew(openWrap(<<"driver">>))
    /\ ret = [repo |-> TRUE, err |-> "nil"]
    /\ keyErr = "nil"
    /\ callers = {}
    /\ calls = [c \in {Opener} |-> Idle]
    /\ tokens = 0
    /\ faults = 0
    /\ keys = <<"p">>
    /\ cacheFS = {}
    /\ oldDirs = {}
    /\ removed = {}
    /\ useCache = FALSE

InitRepo == Opened /\ RepoInit /\ TestInit

NextRepo ==
    \/ \E b \in Blobs : SaveBlob(b[1], b[2])
    \/ Flush
    \/ FinalizeIndexes
    \/ \E i \in 1..Len(mi) : SaveIndex(i)
    \/ MergeFinal
    \/ /\ loaded = {}
       /\ mi = <<>>
       /\ results = <<>>
       /\ \E files \in SUBSET IndexFiles \ {{}} : \E order \in Listings(files) :
            LoadIndex(order)
    \/ TestMergeIndex

SpecRepo == InitRepo /\ [][NextRepo]_vars

----------------------------------------------------------------------------
(* Snapshots: restic.SaveSnapshot and restic.LoadSnapshot on a test repository *)

\* the snapshots of the model: restic.Snapshot{} with Hostname and Username set
Snapshots == [Hostname : {"", "foobar"}, Username : {"", "test!"}]

\* the key of the test repository, some other key, and the IVs Seal draws
MasterKey == "k"

IVs == {"iv1", "iv2"}

\* json.Marshal of a snapshot: a field tagged omitempty is left out when it
\* is empty, the time is always there
Marshal(sn) ==
    [zstd |-> FALSE,
     body |-> {<<"time", "0001-01-01T00:00:00Z">>}
                \cup {kv \in {<<"hostname", sn.Hostname>>, <<"username", sn.Username>>} :
                        kv[2] # ""}]

Field(doc, k) ==
    IF \E kv \in doc.body : kv[1] = k
    THEN (CHOOSE kv \in doc.body : kv[1] = k)[2]
    ELSE ""

\* json.Unmarshal into a snapshot: a field that is not in the document stays
\* empty; what is not a JSON document is refused
Unmarshal(doc) ==
    IF doc.zstd
    THEN [err |-> "invalid character", sn |-> [Hostname |-> "", Username |-> ""]]
    ELSE [err |-> "nil",
          sn |-> [Hostname |-> Field(doc, "hostname"), Username |-> Field(doc, "username")]]

\* SaveUnpacked: a repository of version 2 compresses unless compression is off
compressUnpacked(r, doc) ==
    IF r.version >= 2 /\ r.compression # "off" THEN [doc EXCEPT !.zstd = TRUE] ELSE doc

decompressNever(doc) == doc

\* LoadUnpacked: what was compressed is decompressed
decompressUnpacked(doc) == [doc EXCEPT !.zstd = FALSE]

\* crypto Seal and Open: Open returns the plaintext when the MAC is the one of
\* the key
Seal(key, iv, pt) == [iv |-> iv, ct |-> pt, mac |-> <<key, iv, pt>>]

Open(key, c) ==
    IF c.mac = <<key, c.iv, c.ct>>
    THEN [err |-> "nil", pt |-> c.ct]
    ELSE [err |-> "ciphertext verification failed", pt |-> c.ct]

SnapshotID(sn) == SHA256(Marshal(sn))

\* restic.SaveSnapshot(ctx, repo, sn)
SaveSnapshot(sn, iv) ==
    /\ Cardinality(snapSaves) < MaxSnapshots
    /\ LET doc  == Marshal(sn)
           data == Seal(MasterKey, iv, compressUnpacked(snapRepo, doc))
           id   == SHA256(doc)
       IN  /\ snapFiles' = IF \E f \in snapFiles : f.id = id
                           THEN snapFiles
                           ELSE snapFiles \cup {[id |-> id, data |-> data]}
           /\ snapSaves' = snapSaves \cup {[sn |-> sn, id |-> id, err |-> "nil"]}
    /\ UNCHANGED <<snapRepo, snapLoads, s3Vars>>
    /\ UNCHANGED <<openVars, repoVars>>

\* restic.LoadSnapshot(ctx, repo, id)
loadSnapshot(files, id) ==
    IF ~\E f \in files : f.id = id
    THEN [id |-> id, err |-> "not found", sn |-> [Hostname |-> "", Username |-> ""]]
    ELSE LET f == CHOOSE g \in files : g.id = id
             o == Open(MasterKey, f.data)
             u == Unmarshal(decompressUnpacked(o.pt))
         IN  IF o.err # "nil"
             THEN [id |-> id, err |-> o.err, sn |-> [Hostname |-> "", Username |-> ""]]
             ELSE [id |-> id, err |-> u.err, sn |-> u.sn]

\* the call and what it returned; saved: a SaveSnapshot had returned the ID
LoadSnapshot(id) ==
    /\ snapLoads' = snapLoads \cup
            {[call |-> loadSnapshot(snapFiles, id),
              saved |-> \E e \in snapSaves : e.id = id]}
    /\ UNCHANGED <<snapRepo, snapFiles, snapSaves, s3Vars>>
    /\ UNCHANGED <<openVars, repoVars>>

\* repository.TestAllVersions and TestRepositoryWithVersion: an empty
\* repository of either version
InitSnapshot ==
    /\ Opened
    /\ RepoInit
    /\ snapRepo \in [version : {1, 2}, compression : {"off", "auto", "max"}]
    /\ snapFiles = {}
    /\ snapSaves = {}
    /\ snapLoads = {}
    /\ heap = <<>>
    /\ s3ret = [arg |-> 0, res |-> 0, at |-> <<>>]

NextSnapshot ==
    \/ \E sn \in Snapshots, iv \in IVs : SaveSnapshot(sn, iv)
    \/ \E sn \in Snapshots : LoadSnapshot(SnapshotID(sn))

SpecSnapshot == InitSnapshot /\ [][NextSnapshot]_vars

----------------------------------------------------------------------------
(* The s3 layout migration: toS3Backend on the backends of its test *)

\* a backend object: its type and, for a cache.Backend, the position in heap
\* of the Backend it embeds (0: nil); a pointer to an object is its position
Object(k, inner) == [kind |-> k, Backend |-> inner]

\* what a cache.Backend may embed: nil, or a backend that is not a cache
Embeddable(h) == {0} \cup {i \in 1..Len(h) : h[i].kind # "cache"}

toS3BackendNoUnwrap(h, b) == IF h[b].kind = "s3" THEN b ELSE 0

\* toS3Backend(b): b when it is an *s3.Backend, the backend a cache.Backend
\* embeds when that is one, nil otherwise
toS3Backend(h, b) ==
    IF h[b].kind = "s3"
    THEN b
    ELSE IF h[b].kind = "cache" /\ h[b].Backend # 0 /\ h[h[b].Backend].kind = "s3"
         THEN h[b].Backend
         ELSE 0

\* m := mock.NewBackend(), s3 := &s3.Backend{}
NewBackend(k) ==
    /\ Len(heap) < MaxBackends
    /\ heap' = Append(heap, Object(k, 0))
    /\ UNCHANGED <<s3ret, snapVars>>
    /\ UNCHANGED <<openVars, repoVars>>

\* c := &cache.Backend{Backend: inner}
NewCacheBackend(inner) ==
    /\ Len(heap) < MaxBackends
    /\ inner \in Embeddable(heap)
    /\ heap' = Append(heap, Object("cache", inner))
    /\ UNCHANGED <<s3ret, snapVars>>
    /\ UNCHANGED <<openVars, repoVars>>

\* c.Backend = inner
SetBackend(c, inner) ==
    /\ c \in 1..Len(heap)
    /\ heap[c].kind = "cache"
    /\ inner \in Embeddable(heap)
    /\ heap' = [heap EXCEPT ![c].Backend = inner]
    /\ UNCHANGED <<s3ret, snapVars>>
    /\ UNCHANGED <<openVars, repoVars>>

\* toS3Backend(b) is called and its result compared
CallToS3Backend(b) ==
    /\ b \in 1..Len(heap)
    /\ s3ret' = [arg |-> b, res |-> toS3Backend(heap, b), at |-> heap]
    /\ UNCHANGED <<heap, snapVars>>
    /\ UNCHANGED <<openVars, repoVars>>

InitS3 == Opened /\ RepoInit /\ TestInit

NextS3 ==
    \/ \E k \in {"mock", "s3"} : NewBackend(k)
    \/ \E inner \in 0..MaxBackends : NewCacheBackend(inner)
    \/ \E c \in 1..MaxBackends, inner \in 0..MaxBackends : SetBackend(c, inner)
    \/ \E b \in 1..MaxBackends : CallToS3Backend(b)

SpecS3 == InitS3 /\ [][NextS3]_vars

----------------------------------------------------------------------------
(* Properties of OpenRepository and of the backend it builds *)

InDriver(c) == calls[c].st = "run" /\ calls[c].pos = 1

TestHooks == {"innerTestHook", "testHook"}

IsWrapper(x) == x \notin TestHooks

\* the wrappers of a backend or of a path, the layers of the test hooks left out
Core(b) == SelectSeq(b, IsWrapper)

\* C1: when SearchKey fails because no key file can be decrypted with the
\* password, OpenRepository returns an authentication error and no repository;
\* it returns a repository with a nil error only when SearchKey succeeded.
C1_AuthErrorSurfaced ==
    pc = "done" =>
        /\ keyErr = "AuthError" => ~ret.repo /\ ret.err = "AuthError"
        /\ ret.repo /\ ret.err = "nil" => keyErr = "nil"

C3_FailuresRetried ==
    /\ \A c \in DOMAIN calls :
            calls[c].st = "err" /\ calls[c].op \in Idempotent => calls[c].attempts > 1
    /\ pc = "done" /\ ret.err = "Fatal: unable to open config file"
            => calls[Opener].attempts > 1

\* C4: an operation that the driver fails k times and then completes is
\* successful for the caller; report has then been called exactly k times and,
\* when k >= 1, success exactly once with retries = k; with k = 0 neither
\* callback is called.  While the operation runs, report has been called once
\* for every failed attempt.
C4_RetryRecovery ==
    \A c \in DOMAIN calls :
        /\ calls[c].st = "ok" /\ Has(be, "retry") =>
              /\ calls[c].reports = calls[c].fails
              /\ calls[c].successes = (IF calls[c].fails >= 1 THEN 1 ELSE 0)
              /\ calls[c].retries = calls[c].fails
        /\ calls[c].st = "run" =>
              /\ calls[c].reports = calls[c].fails
              /\ calls[c].successes = 0

C4_Witness ==
    \E c \in callers :
        /\ calls[c].st = "ok"
        /\ calls[c].op = "Save"
        /\ calls[c].fails = 3
        /\ calls[c].reports = 3
        /\ calls[c].successes = 1

\* C5: the retry wrapper of OpenRepository attempts an operation at most 10
\* times; an idempotent operation that fails every time is given up after the
\* tenth attempt and its error is returned.
C5_RetryBounded ==
    \A c \in DOMAIN calls :
        /\ calls[c].attempts <= 10
        /\ calls[c].st = "err" /\ Has(be, "retry") /\ calls[c].op \in Idempotent =>
              calls[c].attempts = 10 /\ calls[c].fails = 10

C5_Witness ==
    \E c \in callers :
        calls[c].st = "err" /\ calls[c].op = "Load" /\ calls[c].fails = 10

\* C9: every operation in the driver has been admitted by the sema wrapper,
\* the Stat of open and the calls through the test hooks included, and the
\* operations in the driver never outnumber the connection limit.
C9_SemaAdmission ==
    /\ \A c \in DOMAIN calls : InDriver(c) => calls[c].admitted
    /\ Cardinality({c \in DOMAIN calls : InDriver(c)}) <= Connections
    /\ tokens = Cardinality({c \in DOMAIN calls : calls[c].admitted})

C9_Witness ==
    /\ Has(be, "innerTestHook")
    /\ Has(be, "testHook")
    /\ Cardinality({c \in callers : InDriver(c)}) = Connections
    /\ \E c \in callers :
            /\ calls[c].st = "run"
            /\ calls[c].pos = IdxOf(be, "sema") + 1

\* C10: OpenRepository removes only directories that cache.Old returned, and
\* only when CleanupCache is set, NoCache is not and the cache was opened; it
\* never removes the cache directory of the repository it opens, and no other
\* directory disappears.
C10_CleanupCallerDriven ==
    /\ removed \subseteq oldDirs
    /\ removed # {} => opts.CleanupCache /\ ~opts.NoCache /\ useCache
    /\ OwnDir \notin removed
    /\ Siblings \ cacheFS = removed
    /\ useCache => OwnDir \in cacheFS

C10_Witness ==
    /\ pc = "done"
    /\ removed # {}
    /\ removed # oldDirs

----------------------------------------------------------------------------
(* Properties of the repository and its master index *)

HelloWorld == BlobHandle("data", "hello world")

\* the pack files of the repository: those the loaded index files list and
\* those saved since
LoadedPacks == UNION {Range(FilePacks(f)) : f \in loaded}
AllPacks == LoadedPacks \cup packs

\* the entries of the master index, the entries for a blob, the packs counted
PacksOf(m) == UNION {{<<i, k>> : k \in 1..Len(m[i].packs)} : i \in 1..Len(m)}
PackCount(m) == Cardinality(PacksOf(m))
Entries(m) ==
    UNION {{<<e[1], e[2], b>> : b \in 1..Len(m[e[1]].packs[e[2]].blobs)} : e \in PacksOf(m)}
EntriesOf(m, h) == {e \in Entries(m) : m[e[1]].packs[e[2]].blobs[e[3]] = h}
Novel == {i \in 1..Len(results) : ~results[i].known}
BlobsIn(p) == UNION {{<<q, b>> : b \in 1..Len(q.blobs)} : q \in p}

\* C6: a SaveBlob of a blob that was saved before is answered from the master
\* index with the ID of the first call; it appends nothing to a packer and
\* saves nothing (all that was written is one blob per call that found the
\* blob unknown, one backend Save per pack), and once the packers are flushed
\* no blob has two index entries and every saved blob is held by exactly one
\* pack and has its index entry.
C6_Deduplication ==
    /\ \A i, j \in 1..Len(results) :
          i < j /\ results[i].blob = results[j].blob
          => /\ results[j].known
             /\ results[j].id = results[i].id
             /\ results[j].id = SHA256(results[j].blob.id[2])
    /\ Len(packer) + Cardinality(BlobsIn(packs)) = Cardinality(Novel)
    /\ nSaves = Cardinality(packs)
    /\ nSaves <= Cardinality(Novel)
    /\ packer = <<>> =>
          LET all  == AllPacks
              ents == {mi[e[1]].packs[e[2]].blobs[e[3]] : e \in Entries(mi)}
          IN  /\ Cardinality(ents) = Cardinality(Entries(mi))
              /\ \A i \in 1..Len(results) :
                    /\ Cardinality({p \in all : results[i].blob \in Range(p.blobs)}) = 1
                    /\ results[i].blob \in ents

\* "hello world" was saved twice as data and the packer flushed: one pack of one
\* blob, one index entry, the second call answered from the index
C6_Witness ==
    /\ results = <<[blob |-> HelloWorld, id |-> SHA256("hello world"), known |-> FALSE],
                   [blob |-> HelloWorld, id |-> SHA256("hello world"), known |-> TRUE]>>
    /\ packer = <<>>
    /\ packs = {Pack(<<HelloWorld>>)}
    /\ nSaves = 1
    /\ Cardinality(EntriesOf(mi, HelloWorld)) = 1

\* C7: every index of the master index has gone through Open, Finalized, Saved
\* in this order and is in the last state of its history, no entry was added
\* to an index that was not open, only finalized indexes have an ID, SetID in
\* TestMergeIndex succeeded, and every index a merge consumed was finalized
\* and had an ID.
C7_IndexStateMachine ==
    /\ \A i \in 1..Len(mi) :
          /\ mi[i].hist \in {<<"Open">>, <<"Open", "Finalized">>,
                              <<"Open", "Finalized", "Saved">>}
          /\ mi[i].final = (Len(mi[i].hist) >= 2)
          /\ (mi[i].ids # {}) = (Len(mi[i].hist) = 3)
          /\ mi[i].late = 0
    /\ \A r \in mergedLog : r.final /\ r.saved
    /\ testRet.ok

\* a saved index with entries, a finalized one without an ID, and an open one
\* that took the entries stored after the others were finalized
C7_Witness ==
    \E i, j, k \in 1..Len(mi) :
        /\ mi[i].hist = <<"Open", "Finalized", "Saved">> /\ mi[i].packs # <<>>
        /\ mi[j].hist = <<"Open", "Finalized">> /\ mi[j].packs # <<>>
        /\ mi[k].hist = <<"Open">> /\ mi[k].packs # <<>>
        /\ mergedLog # {}

\* C8: after MergeFinalIndexes at most one index with an ID is left, every ID
\* of an index file or of a saved index is held by exactly one index, the
\* packs counted are the distinct pack IDs (12 for the files of 5 and 7
\* packs, 12 with the file that lists a covered pack again), every pack is
\* listed with all its blobs, and after TestMergeIndex every index it
\* finalized is part of the merged index.
C8_MergeCounts ==
    lastOp \in {"merge", "test"} =>
        /\ Cardinality({i \in 1..Len(mi) : mergeable(mi[i])}) <= 1
        /\ \A id \in {FileID(f) : f \in loaded} \cup {<<"I", n>> : n \in 1..(nextId - 1)} :
              Cardinality({i \in 1..Len(mi) : id \in mi[i].ids}) = 1
        /\ PackCount(mi) = Cardinality({p.id : p \in AllPacks})
        /\ packs = {} /\ {"i5", "i7"} \subseteq loaded => PackCount(mi) = 12
        /\ \A p \in AllPacks : \E e \in PacksOf(mi) : mi[e[1]].packs[e[2]] = p
        /\ lastOp = "test" =>
              /\ \A i \in 1..Len(mi) : mi[i].final
              /\ testRet.finalIndexes > 0 => \E i \in 1..Len(mi) : mergeable(mi[i])
              /\ testRet.n = Len(mi)

\* the three index files were loaded, a pack was saved, and TestMergeIndex
\* merged the index of that pack into the one of the files
C8_Witness ==
    /\ lastOp = "test"
    /\ loaded = IndexFiles
    /\ packs # {}
    /\ testRet.finalIndexes = 1
    /\ testRet.n = 1
    /\ PackCount(mi) = 12 + Cardinality(packs)

----------------------------------------------------------------------------
(* Properties of ReadRepo and of the first steps of OpenRepository *)

ReadRepoErrors ==
    {"Fatal: specify repository location", "Fatal: mutually exclusive",
     "Fatal: does not exist", "read error"}

\* t is s without the white space at its two ends
IsTrimOf(t, s) ==
    /\ t = <<>> \/ (~IsSpace(t[1]) /\ ~IsSpace(t[Len(t)]))
    /\ \E i \in 0..Len(s) :
          /\ i + Len(t) <= Len(s)
          /\ \A k \in 1..Len(t) : s[i + k] = t[k]
          /\ \A k \in 1..Len(s) : (k <= i \/ k > i + Len(t)) => IsSpace(s[k])

\* OpenRepository has done nothing on a backend
NoBackendOperation ==
    be = <<>> /\ calls[Opener] = Idle /\ ~fi.called /\ rt = NoTransport /\ tokens = 0

\* the three fatal errors of ReadRepo and what follows from any error of it
ReadRepoFatal ==
    /\ opts.Repo = <<>> /\ opts.RepositoryFile = ""
          => ret = Failed("Fatal: specify repository location")
    /\ opts.Repo # <<>> /\ opts.RepositoryFile # ""
          => ret = Failed("Fatal: mutually exclusive")
    /\ opts.Repo = <<>> /\ opts.RepositoryFile # "" /\ file.status = "notexist"
          => ret = Failed("Fatal: does not exist")
    /\ ret.err \in ReadRepoErrors => ~ret.repo /\ NoBackendOperation

\* C11, as claimed: once OpenRepository has called ReadRepo, the location is
\* missing, given twice or in a file that does not exist and the call has
\* failed with the fatal error of that case before any backend operation, or
\* else ReadRepo has returned Repo unchanged or the content of RepositoryFile
\* without the white space around it.
C11_LocationRequired ==
    pc # "init" =>
        /\ ReadRepoFatal
        /\ ~(opts.Repo = <<>> /\ opts.RepositoryFile = "")
             /\ ~(opts.Repo # <<>> /\ opts.RepositoryFile # "")
             /\ ~(opts.RepositoryFile # "" /\ file.status = "notexist")
             => /\ ret.err \notin ReadRepoErrors
                /\ IF opts.RepositoryFile = ""
                   THEN repo = opts.Repo
                   ELSE IsTrimOf(repo, file.content)

\* C11, amended: as claimed, but a RepositoryFile that exists and cannot be
\* read makes ReadRepo return the error of the read, which is not fatal, and
\* OpenRepository fail with it before any backend operation; Repo unchanged or
\* the trimmed content is returned in the cases that are left.
C11_LocationFromOneSource ==
    pc # "init" =>
        /\ ReadRepoFatal
        /\ opts.Repo = <<>> /\ opts.RepositoryFile # "" /\ file.status = "ioerror"
             => ret = Failed("read error") /\ NoBackendOperation
        /\ ~(opts.Repo = <<>> /\ opts.RepositoryFile = "")
             /\ ~(opts.Repo # <<>> /\ opts.RepositoryFile # "")
             /\ ~(opts.RepositoryFile # "" /\ file.status \in {"notexist", "ioerror"})
             => /\ ret.err \notin ReadRepoErrors
                /\ IF opts.RepositoryFile = ""
                   THEN repo = opts.Repo
                   ELSE IsTrimOf(repo, file.content)

\* the location was read from a file with white space around it, and open
\* has gone on to the backend
C11_Witness ==
    /\ pc = "stat"
    /\ opts.RepositoryFile = "f"
    /\ file = [status |-> "ok", content |-> <<" ", "r", "\n">>]
    /\ repo = <<"r">>
    /\ calls[Opener].st = "run"

----------------------------------------------------------------------------
(* Properties of SaveSnapshot and LoadSnapshot *)

\* C12: in a repository of either version every SaveSnapshot has succeeded and
\* returned an ID, and every LoadSnapshot of an ID that a SaveSnapshot
\* returned has succeeded with a snapshot that has the Hostname and the
\* Username of the snapshot saved.
C12_SnapshotRoundTrip ==
    /\ \A e \in snapSaves : e.err = "nil" /\ e.id = SnapshotID(e.sn)
    /\ \A l \in snapLoads :
          l.saved =>
              /\ l.call.err = "nil"
              /\ \A e \in snapSaves :
                    e.id = l.call.id =>
                        /\ l.call.sn.Hostname = e.sn.Hostname
                        /\ l.call.sn.Username = e.sn.Username

\* the snapshot of the test was saved in a compressing repository of version 2
\* and loaded again
C12_Witness ==
    /\ snapRepo = [version |-> 2, compression |-> "auto"]
    /\ \E e \in snapSaves, l \in snapLoads :
          /\ e.sn = [Hostname |-> "foobar", Username |-> "test!"]
          /\ l.saved
          /\ l.call.id = e.id
          /\ l.call.err = "nil"
          /\ l.call.sn = e.sn

----------------------------------------------------------------------------
(* Properties of the config check of open and of the cache *)

\* open has returned a backend: OpenRepository has wrapped it for retries
OpenReturnedBackend == Has(be, "retry")

\* C13: open has returned a backend only after the Stat of the config file on
\* the wrapped backend succeeded with a size greater than zero; a failed Stat
\* ends OpenRepository with the fatal error, a size of zero with an error, the
\* Stat being the last backend operation and no repository being returned.
C13_ConfigChecked ==
    /\ OpenReturnedBackend \/ pc = "searchkey" \/ ret.repo
          => fi.called /\ ~fi.err /\ fi.size > 0
    /\ fi.called /\ fi.err
          => /\ pc = "done"
             /\ ret = Failed("Fatal: unable to open config file")
             /\ ~OpenReturnedBackend
             /\ calls[Opener].op = "Stat" /\ calls[Opener].st = "err"
    /\ fi.called /\ ~fi.err /\ fi.size = 0
          => /\ pc = "done"
             /\ ret = Failed("config file has zero size")
             /\ ~OpenReturnedBackend
             /\ calls[Opener].op = "Stat" /\ calls[Opener].st = "ok"
    /\ fi.called /\ calls[Opener].op = "Stat"
          => /\ Core(calls[Opener].path) = <<"logger", "sema", "driver">>
             /\ calls[Opener].attempts = 1

\* the Stat went through the inner test hook and the wrappers and found a
\* config file of size zero
C13_Witness ==
    /\ pc = "done"
    /\ fi = [called |-> TRUE, err |-> FALSE, size |-> 0]
    /\ Has(calls[Opener].path, "innerTestHook")
    /\ ~ret.repo

\* OpenRepository has come to the cache: SearchKey has returned
ReachedCache == keyErr # "unset"

ReturnedRepository == pc = "done" /\ ret = [repo |-> TRUE, err |-> "nil"]

\* C15: the repository has a cache exactly when OpenRepository came to the
\* cache, NoCache is not set and cache.New succeeded.  With NoCache, cache.New,
\* UseCache and cache.Old are not called; when cache.New fails, the repository
\* is returned with a nil error, without a cache and without a call of
\* cache.Old; when cache.Old fails or directories cannot be removed, the
\* repository is returned with a nil error, RemoveAll was called on every old
\* directory and every directory whose removal did not fail is gone.
C15_CacheOptional ==
    /\ useCache <=> ReachedCache /\ ~opts.NoCache /\ cacheLog.new = "ok"
    /\ useCache <=> Has(be, "cache")
    /\ ReachedCache => ReturnedRepository
    /\ opts.NoCache => cacheLog = NoCacheCalls /\ ~useCache
    /\ cacheLog.new = "err" =>
          ReturnedRepository /\ ~useCache /\ cacheLog.old = "notcalled"
    /\ cacheLog.new = "ok" => ReturnedRepository /\ cacheLog.old \in {"ok", "err"}
    /\ cacheLog.old = "err" => ReturnedRepository /\ useCache /\ removed = {}
    /\ cacheLog.attempted = (IF opts.CleanupCache THEN oldDirs ELSE {})
    /\ cacheLog.failing \subseteq cacheLog.attempted
    /\ removed = cacheLog.attempted \ cacheLog.failing

\* with CleanupCache one old directory could not be removed and the other one
\* was removed; the repository was returned with its cache
C15_Witness ==
    /\ ReturnedRepository
    /\ useCache
    /\ cacheLog.failing # {}
    /\ removed # {}

----------------------------------------------------------------------------
(* Properties of toS3Backend *)

\* the backends reachable from b: b and what it embeds
ReachableFrom(h, b) == {b} \cup (IF h[b].kind = "cache" THEN {h[b].Backend} ELSE {})

----------------------------------------------------------------------------
(* Properties of the transport open builds *)

\* C16: the transport open has built is the one of the TransportOptions of
\* the options passed to the call, limited by the limiter of their Limits,
\* whatever the package-level options are: calls with different
\* TransportOptions have different transports, and the package-level options
\* do not show in the transport.
C16_TransportFromArguments ==
    rt # NoTransport =>
        /\ rt.opts = opts.TransportOptions
        /\ rt.limits = opts.Limits
        /\ lim = NewStaticLimiter(opts.Limits)

\* the same for the open of the registry variant alone
C16_RegistryTransportFromArguments ==
    variant = "registry" => C16_TransportFromArguments

============================================================================
